---- MODULE Spec2Model ----
(***************************************************************************)
(* Model of the juicy-sounds audio core: WebAudioProcessor (buffer cache,  *)
(* audio context lifecycle) and SoundPack (manifest resolution, lazy       *)
(* loading, fallback strategy).                                            *)
(*                                                                         *)
(* JavaScript runs handlers to completion: a step of the model is one      *)
(* macrotask (a call from the UI, a fetch response, a decode completion,   *)
(* the completion of AudioContext.close) together with every promise       *)
(* continuation it makes runnable.                                         *)
(***************************************************************************)
EXTENDS Integers, Sequences, FiniteSets, TLC

\* WebAudioProcessor.maxCacheSize, scaled down (100 in the source).
maxCacheSize == 2
\* Calls in progress at the same time.
MaxOps == 2
\* The longest gradient and the longest harmonic set asked for.
MaxSteps == 5
MaxCount == 14

\* One more URL than the cache can hold, so that eviction happens.
NumUrls == maxCacheSize + 1
Urls == 1..NumUrls

VARIABLES
  hasWindow,        \* typeof window !== 'undefined'
  lazyLoad,         \* SoundPack.lazyLoad
  fallback,         \* manifest.formats?.fallback ("undeclared" when absent)
  context,          \* WebAudioProcessor.context and its state
  cache,            \* WebAudioProcessor.cache: keys in insertion order
  loadedSounds,     \* SoundPack.loadedSounds
  loadingPromises,  \* SoundPack.loadingPromises: keys
  tracked,          \* state of the loadSound call behind loadingPromises[url]
  ops,              \* the calls made by the UI: position and outcome
  loadLog,          \* history: URLs put in the cache since the last clear
  hits,             \* history: URLs a loadSound call read from the cache while
                    \* they were the oldest entry of the full cache, since the
                    \* last clear
  packs,            \* SoundPackManager.packs: the names of the loaded packs
  activePack,       \* SoundPackManager.activePack (<<>>: null)
  categoryOverrides,\* SoundPackManager.categoryOverrides: <<category, pack>> pairs
  switched,         \* history: the pack of the last successful switchPack, while
                    \* neither useMixed nor dispose has been called since
  call,             \* the last call of a synchronous operation and its arguments
  result,           \* what that call returned, threw, or applied
  globalVolume,     \* JuicySounds.globalVolume, in hundredths
  isMuted,          \* JuicySounds.isMuted
  synthetic,        \* JuicySounds.config.synthetic.enabled
  clock,            \* Date.now()
  lastPlayTimes,    \* throttledSound.ts lastPlayTimes: soundKey -> {time} ({}: no entry)
  lastInvoked,      \* history: throttled function -> {time of its last invocation}
  enabled,          \* TypeWriter.enabled
  attachedElements, \* TypeWriter.attachedElements
  listeners,        \* keydown and keyup listeners of the typewriter on each element
  defaultTypeWriter,\* the module variable defaultTypeWriter is set
  typeWriterConfig, \* TypeWriter.config: enabled, keyUpSounds, style
  lastQuick         \* history: the last of enableTypingSounds and
                    \* disableTypingSounds called ("none": neither)

vars == <<hasWindow, lazyLoad, fallback, context, cache, loadedSounds,
          loadingPromises, tracked, ops, loadLog, hits,
          packs, activePack, categoryOverrides, switched, call, result,
          globalVolume, isMuted, synthetic, clock, lastPlayTimes, lastInvoked,
          enabled, attachedElements, listeners, defaultTypeWriter,
          typeWriterConfig, lastQuick>>

config == <<hasWindow, lazyLoad, fallback>>

\* The router in front of the packs, and the last synchronous call.
manager == <<packs, activePack, categoryOverrides, switched>>
sync == <<call, result>>

\* The JuicySounds instance, the throttle table and the typewriter.
juicy == <<globalVolume, isMuted, synthetic>>
throttle == <<clock, lastPlayTimes, lastInvoked>>
typewriter == <<enabled, attachedElements, listeners, defaultTypeWriter,
                typeWriterConfig, lastQuick>>
front == <<juicy, throttle, typewriter>>

\* The sound keys and the throttled functions of throttledSounds, and a
\* caller's own throttled function sharing the key of hover.
SoundKeys == {"slider-step", "hover"}
Throttled == {"sliderStep", "hover", "custom"}

\* The input elements of the document.
Elements == {"input", "textarea"}

\* Nothing constructed yet besides the pack: defaults of the field initialisers.
NoFront ==
  /\ globalVolume = 100 /\ isMuted = FALSE /\ synthetic = TRUE
  /\ clock = 0
  /\ lastPlayTimes = [k \in SoundKeys |-> {}]
  /\ lastInvoked = [f \in Throttled |-> {}]
  /\ enabled = TRUE /\ attachedElements = {}
  /\ listeners = [e \in Elements |-> [keydown |-> 0, keyup |-> 0]]
  /\ defaultTypeWriter = FALSE
  /\ typeWriterConfig = [enabled |-> {TRUE}, keyUpSounds |-> FALSE, style |-> "mechanical"]
  /\ lastQuick = "none"

----------------------------------------------------------------------------
\* Error taxonomy (the messages thrown in the source, by kind).
Errors == {"EngineUnavailable", "LoadError", "DecodeError", "TypeError", "SoundNotFound"}

FallbackStrategies == {"silence", "synth", "error", "undeclared"}

\* The pack manifest used for the check. A bare entry is a file name; a
\* structured entry has a default file and, optionally, a variants list.
ManifestSounds ==
  [ click  |-> [kind |-> "string", default |-> 1, hasVariants |-> FALSE, variants |-> <<>>],
    hover  |-> [kind |-> "record", default |-> 2, hasVariants |-> TRUE,  variants |-> <<3>>],
    open   |-> [kind |-> "record", default |-> 3, hasVariants |-> FALSE, variants |-> <<>>],
    toggle |-> [kind |-> "record", default |-> 1, hasVariants |-> TRUE,  variants |-> <<>>] ]

\* Paths a caller may ask for; "ghost" is not in the manifest.
Paths == DOMAIN ManifestSounds \cup {"ghost"}

InManifest(p) == p \in DOMAIN ManifestSounds

\* SoundPack.resolveSound: the file of a path (0: throws sound-not-found).
resolveSound(p) == IF InManifest(p) THEN ManifestSounds[p].default ELSE 0

\* manifest.formats?.fallback || 'silence'
fallbackStrategyStrict(f) == IF f = "undeclared" THEN "error" ELSE f
fallbackStrategy(f) == IF f = "undeclared" THEN "silence" ELSE f

\* The catch block of SoundPack.play: the outcome of a play that failed with e.
playCatch(f, e) == IF fallbackStrategy(f) = "error" THEN e ELSE "fallback"

----------------------------------------------------------------------------
\* WebAudioProcessor.initContext: the context after the call.
initContext(w, c) ==
  IF ~w THEN c
  ELSE LET c1 == IF c = "none" THEN "suspended" ELSE c
       IN  IF c1 = "suspended" THEN "running" ELSE c1

Has(c, u) == \E k \in 1..Len(c) : c[k] = u

\* Map.set: a new key goes last, an existing key keeps its place.
CacheSet(c, u) == IF Has(c, u) THEN c ELSE Append(c, u)

\* cache.get on a hit: a Map keeps its insertion order on reads.
cacheGetLru(c, u) == Append(SelectSeq(c, LAMBDA e : e # u), u)
cacheGet(c, u) == c

\* A loadSound call reads the oldest entry of a full cache.
HitOldest(o, c) == o.api = "loadSound" /\ Len(c) >= maxCacheSize /\ c # <<>> /\ Head(c) = o.url

\* loadSound, "Manage cache size" and cache.set.
cacheInsertOverfull(c, u) ==
  CacheSet(IF Len(c) > maxCacheSize /\ c # <<>> THEN Tail(c) ELSE c, u)
cacheInsert(c, u) ==
  CacheSet(IF Len(c) >= maxCacheSize /\ c # <<>> THEN Tail(c) ELSE c, u)

\* The history of insertions: kept while its URLs are pairwise distinct,
\* <<0>> once a URL has been inserted twice.
Logged(l, u) == IF l = <<0>> \/ Has(l, u) THEN <<0>> ELSE Append(l, u)

----------------------------------------------------------------------------
\* The context has been closed by dispose (a runtime with a window builds
\* the context in the constructor, so only dispose leaves it closed or null).
Closed == hasWindow /\ context \in {"closed", "none"}

\* A call in progress: api is the entry point, url the resource (0: none),
\* pc its position, res its outcome, post whether it was made on a closed
\* context.
NewOp(a, u) == [api |-> a, url |-> u, pc |-> "new", res |-> "none", post |-> Closed]

\* The calls that have not settled; a settled call stays in ops for one step.
Live == SelectSeq(ops, LAMBDA o : o.pc # "done")
Done == {k \in 1..Len(ops) : ops[k].pc = "done"}

\* Failures of SoundPack.play are caught and go through the fallback
\* strategy; loadSound and the playWithPitch of playVariant reject.
Caught(o) == o.api = "play"

Settle(o, e) == [o EXCEPT !.pc = "done", !.res = IF Caught(o) THEN playCatch(fallback, e) ELSE e]
Resolve(o, r) == [o EXCEPT !.pc = "done", !.res = r]

\* No synchronous call has been made yet.
NoCall == [op |-> "none"]

TypeOK ==
  /\ hasWindow \in BOOLEAN /\ lazyLoad \in BOOLEAN
  /\ fallback \in FallbackStrategies
  /\ context \in {"none", "suspended", "running", "closed"}
  /\ \A k \in 1..Len(cache) : cache[k] \in Urls
  /\ loadedSounds \subseteq Urls /\ loadingPromises \subseteq Urls /\ hits \subseteq Urls
  /\ tracked \in [Urls -> {"none", "fetching", "decoding"}]
  /\ Len(Live) <= MaxOps

Init ==
  /\ hasWindow \in BOOLEAN
  /\ lazyLoad \in BOOLEAN
  /\ fallback \in FallbackStrategies
  /\ context = initContext(hasWindow, "none")
  /\ cache = <<>>
  /\ loadedSounds = {}
  /\ loadingPromises = {}
  /\ tracked = [u \in Urls |-> "none"]
  /\ ops = <<>>
  /\ loadLog = <<>>
  /\ hits = {}
  /\ packs = {}
  /\ activePack = <<>>
  /\ categoryOverrides = {}
  /\ switched = <<>>
  /\ call = NoCall
  /\ result = NoCall
  /\ NoFront

----------------------------------------------------------------------------
\* WebAudioProcessor.loadSound up to its first suspension, for the new call
\* o: a cache hit returns at once (outcome hit), a miss makes the context
\* ready and issues the fetch.
loadSound(o, hit) ==
  IF Has(cache, o.url)
  THEN /\ ops' = Append(Live, Resolve(o, hit))
       /\ cache' = cacheGet(cache, o.url)
       /\ hits' = IF HitOldest(o, cache) THEN hits \cup {o.url} ELSE hits
       /\ UNCHANGED context
  ELSE /\ context' = initContext(hasWindow, context)
       /\ ops' = Append(Live, IF context' = "none" THEN Settle(o, "EngineUnavailable")
                              ELSE [o EXCEPT !.pc = "fetching"])
       /\ UNCHANGED <<cache, hits>>

\* WebAudioProcessor.playWithPitch up to its first suspension: without a
\* context it throws; on a cache hit it renders at once.
playWithPitch(o) ==
  IF initContext(hasWindow, context) = "none"
  THEN /\ ops' = Append(Live, Settle(o, "EngineUnavailable"))
       /\ UNCHANGED <<context, cache, hits>>
  ELSE /\ context' = initContext(hasWindow, context)
       /\ IF Has(cache, o.url)
          THEN /\ ops' = Append(Live, Resolve(o, "played"))
               /\ cache' = cacheGet(cache, o.url)
          ELSE /\ ops' = Append(Live, [o EXCEPT !.pc = "fetching"])
               /\ UNCHANGED cache
       /\ UNCHANGED hits

\* A direct call of processor.loadSound(u), as SoundPack.preload makes for
\* every manifest entry.
LoadSoundCall(u) ==
  /\ Len(Live) < MaxOps
  /\ loadSound(NewOp("loadSound", u), "cached")
  /\ UNCHANGED <<config, manager, sync, front, loadedSounds, loadingPromises, tracked, loadLog>>

\* SoundPack.play: the then and catch callbacks of the load promise.
trackerAfterSuccess(lp, u) == lp \ {u}
trackerKeptOnFailure(lp, u) == lp
trackerAfterFailure(lp, u) == lp \ {u}

\* SoundPack.play(path), the body of the try block and its catch.
PlayCall(p) ==
  /\ Len(Live) < MaxOps
  /\ LET o == NewOp("play", resolveSound(p))
         u == o.url
     IN
     IF u = 0
     THEN /\ ops' = Append(Live, Settle(o, "SoundNotFound"))
          /\ UNCHANGED <<context, cache, hits, loadedSounds, loadingPromises, tracked>>
     ELSE IF lazyLoad /\ u \notin loadedSounds
     THEN IF u \notin loadingPromises
          THEN IF Has(cache, u)
               THEN \* loadSound resolves from the cache, then playWithPitch hits
                    /\ loadedSounds' = loadedSounds \cup {u}
                    /\ loadingPromises' = trackerAfterSuccess(loadingPromises \cup {u}, u)
                    /\ context' = initContext(hasWindow, context)
                    /\ cache' = cacheGet(cacheGet(cache, u), u)
                    /\ ops' = Append(Live, Resolve(o, "played"))
                    /\ UNCHANGED <<tracked, hits>>
               ELSE /\ context' = initContext(hasWindow, context)
                    /\ UNCHANGED <<cache, hits, loadedSounds>>
                    /\ IF context' = "none"
                       THEN /\ ops' = Append(Live, Settle(o, "EngineUnavailable"))
                            /\ loadingPromises' = trackerAfterFailure(loadingPromises \cup {u}, u)
                            /\ UNCHANGED tracked
                       ELSE /\ tracked' = [tracked EXCEPT ![u] = "fetching"]
                            /\ loadingPromises' = loadingPromises \cup {u}
                            /\ ops' = Append(Live, [o EXCEPT !.pc = "awaitTracked"])
          ELSE /\ ops' = Append(Live, [o EXCEPT !.pc = "awaitTracked"])
               /\ UNCHANGED <<context, cache, hits, loadedSounds, loadingPromises, tracked>>
     ELSE /\ playWithPitch(o)
          /\ UNCHANGED <<loadedSounds, loadingPromises, tracked>>
  /\ UNCHANGED <<config, manager, sync, front, loadLog>>

\* SoundPack.playVariant(path): k is the random index drawn.
PlayVariantCall(p, k) ==
  IF ~InManifest(p) \/ ManifestSounds[p].kind = "string"
  THEN k = 1 /\ PlayCall(p)
  ELSE LET cfg == ManifestSounds[p]
           variants == IF cfg.hasVariants THEN cfg.variants ELSE <<cfg.default>>
       IN
       /\ Len(Live) < MaxOps
       /\ IF variants = <<>>
          THEN \* variants[0] is undefined: getBestFormat throws TypeError
               /\ k = 1
               /\ ops' = Append(Live, Settle(NewOp("playVariant", 0), "TypeError"))
               /\ UNCHANGED <<context, cache, hits>>
          ELSE /\ k \in 1..Len(variants)
               /\ playWithPitch(NewOp("playVariant", variants[k]))
       /\ UNCHANGED <<config, manager, sync, front, loadedSounds, loadingPromises, tracked, loadLog>>

----------------------------------------------------------------------------
\* The rest of playWithPitch once loadSound has returned the buffer:
\* this.context.createBufferSource() on the current context.
render(o) ==
  IF o.api = "loadSound" THEN Resolve(o, "buffer")
  ELSE IF context = "none" THEN Settle(o, "TypeError")
  ELSE Resolve(o, "played")

\* The calls in progress with the k-th replaced by o.
Step(k, o) == [Live EXCEPT ![k] = o]
At(k, pc) == k \in 1..Len(Live) /\ Live[k].pc = pc

\* fetch resolved with response.ok; this.context.decodeAudioData is called.
FetchOk(k) ==
  /\ At(k, "fetching")
  /\ ops' = Step(k, IF context = "none" THEN Settle(Live[k], "TypeError")
                    ELSE [Live[k] EXCEPT !.pc = "decoding"])
  /\ UNCHANGED <<config, manager, sync, front, context, cache, loadedSounds, loadingPromises, tracked, loadLog, hits>>

\* fetch rejected, or response.ok is false.
FetchFail(k) ==
  /\ At(k, "fetching")
  /\ ops' = Step(k, Settle(Live[k], "LoadError"))
  /\ UNCHANGED <<config, manager, sync, front, context, cache, loadedSounds, loadingPromises, tracked, loadLog, hits>>

\* decodeAudioData resolved: the buffer is cached and returned.
DecodeOk(k) ==
  /\ At(k, "decoding")
  /\ cache' = cacheInsert(cache, Live[k].url)
  /\ loadLog' = Logged(loadLog, Live[k].url)
  /\ ops' = Step(k, render(Live[k]))
  /\ UNCHANGED <<config, manager, sync, front, context, loadedSounds, loadingPromises, tracked, hits>>

\* decodeAudioData rejected.
DecodeFailEvicting(k) ==
  /\ At(k, "decoding")
  /\ ops' = Step(k, Settle(Live[k], "DecodeError"))
  /\ cache' = IF Len(cache) >= maxCacheSize /\ cache # <<>> THEN Tail(cache) ELSE cache
  /\ UNCHANGED <<config, manager, sync, front, context, loadedSounds, loadingPromises, tracked, loadLog, hits>>
DecodeFail(k) ==
  /\ At(k, "decoding")
  /\ ops' = Step(k, Settle(Live[k], "DecodeError"))
  /\ UNCHANGED <<config, manager, sync, front, context, cache, loadedSounds, loadingPromises, tracked, loadLog, hits>>

----------------------------------------------------------------------------
\* The load behind loadingPromises[u] and the plays that await it.
Waiting(o, u) == o.pc = "awaitTracked" /\ o.url = u

\* The load promise rejected with e: the catch callback runs, then the
\* catch block of every play awaiting it.
trackedFail(u, e) ==
  /\ tracked' = [tracked EXCEPT ![u] = "none"]
  /\ loadingPromises' = trackerAfterFailure(loadingPromises, u)
  /\ ops' = [k \in 1..Len(Live) |-> IF Waiting(Live[k], u) THEN Settle(Live[k], e) ELSE Live[k]]
  /\ UNCHANGED <<config, manager, sync, front, context, cache, loadedSounds, loadLog, hits>>

TrackedFetchOk(u) ==
  /\ tracked[u] = "fetching"
  /\ IF context = "none"
     THEN trackedFail(u, "TypeError")
     ELSE /\ tracked' = [tracked EXCEPT ![u] = "decoding"]
          /\ ops' = Live
          /\ UNCHANGED <<config, manager, sync, front, context, cache, loadedSounds, loadingPromises, loadLog, hits>>

TrackedFetchFail(u) == tracked[u] = "fetching" /\ trackedFail(u, "LoadError")

TrackedDecodeFail(u) == tracked[u] = "decoding" /\ trackedFail(u, "DecodeError")

\* The load promise resolved: the buffer is cached, the then callback runs,
\* and every play awaiting it goes on to playWithPitch, which finds the
\* buffer just cached.
TrackedDecodeOk(u) ==
  /\ tracked[u] = "decoding"
  /\ cache' = cacheInsert(cache, u)
  /\ loadLog' = Logged(loadLog, u)
  /\ loadedSounds' = loadedSounds \cup {u}
  /\ loadingPromises' = trackerAfterSuccess(loadingPromises, u)
  /\ tracked' = [tracked EXCEPT ![u] = "none"]
  /\ context' = IF \E k \in 1..Len(Live) : Waiting(Live[k], u)
                THEN initContext(hasWindow, context) ELSE context
  /\ ops' = [k \in 1..Len(Live) |-> IF Waiting(Live[k], u) THEN Resolve(Live[k], "played") ELSE Live[k]]
  /\ UNCHANGED <<config, manager, sync, front, hits>>

----------------------------------------------------------------------------
\* WebAudioProcessor.clearCache
clearCache ==
  /\ cache' = <<>>
  /\ loadLog' = <<>>
  /\ hits' = {}

ClearCache ==
  /\ clearCache
  /\ ops' = Live
  /\ UNCHANGED <<config, manager, sync, front, context, loadedSounds, loadingPromises, tracked>>

\* WebAudioProcessor.dispose up to the await of context.close().
Dispose ==
  /\ clearCache
  /\ context' = IF context = "none" THEN "none" ELSE "closed"
  /\ ops' = Live
  /\ UNCHANGED <<config, manager, sync, front, loadedSounds, loadingPromises, tracked>>

\* context.close() resolved: this.context = null.
DisposeEnd ==
  /\ context = "closed"
  /\ context' = "none"
  /\ ops' = Live
  /\ UNCHANGED <<config, manager, sync, front, cache, loadedSounds, loadingPromises, tracked, loadLog, hits>>

----------------------------------------------------------------------------
\* A direct call of processor.playWithPitch(u).
PlayWithPitchCall(u) ==
  /\ Len(Live) < MaxOps
  /\ playWithPitch(NewOp("playWithPitch", u))
  /\ UNCHANGED <<config, manager, sync, front, loadedSounds, loadingPromises, tracked, loadLog>>

----------------------------------------------------------------------------
\* A sound pack in use: play, playVariant and dispose.
Next ==
  \/ \E p \in Paths : PlayCall(p)
  \/ \E p \in Paths, k \in 1..2 : PlayVariantCall(p, k)
  \/ \E k \in 1..MaxOps : FetchOk(k)
  \/ \E k \in 1..MaxOps : FetchFail(k)
  \/ \E k \in 1..MaxOps : DecodeOk(k)
  \/ \E k \in 1..MaxOps : DecodeFail(k)
  \/ \E u \in Urls : TrackedFetchOk(u)
  \/ \E u \in Urls : TrackedFetchFail(u)
  \/ \E u \in Urls : TrackedDecodeOk(u)
  \/ \E u \in Urls : TrackedDecodeFail(u)
  \/ Dispose
  \/ DisposeEnd

Spec == Init /\ [][Next]_vars

\* A sound pack on which only play is called.
NextPlay ==
  \/ \E p \in Paths : PlayCall(p)
  \/ \E k \in 1..MaxOps : FetchOk(k)
  \/ \E k \in 1..MaxOps : FetchFail(k)
  \/ \E k \in 1..MaxOps : DecodeOk(k)
  \/ \E k \in 1..MaxOps : DecodeFail(k)
  \/ \E u \in Urls : TrackedFetchOk(u)
  \/ \E u \in Urls : TrackedFetchFail(u)
  \/ \E u \in Urls : TrackedDecodeOk(u)
  \/ \E u \in Urls : TrackedDecodeFail(u)

SpecPlay == Init /\ [][NextPlay]_vars

\* A WebAudioProcessor used on its own.
InitProcessor == Init /\ lazyLoad /\ fallback = "silence"

NextProcessor ==
  \/ \E u \in Urls : LoadSoundCall(u)
  \/ \E u \in Urls : PlayWithPitchCall(u)
  \/ \E k \in 1..MaxOps : FetchOk(k)
  \/ \E k \in 1..MaxOps : FetchFail(k)
  \/ \E k \in 1..MaxOps : DecodeOk(k)
  \/ \E k \in 1..MaxOps : DecodeFail(k)
  \/ ClearCache
  \/ Dispose
  \/ DisposeEnd

SpecProcessor == InitProcessor /\ [][NextProcessor]_vars

----------------------------------------------------------------------------
\* Loads in flight for a URL: the load behind the pack's tracker and the
\* loads of the calls in progress.
Fetching(o, u) == o.url = u /\ o.pc \in {"fetching", "decoding"}
InFlight(u) ==
  (IF tracked[u] # "none" THEN 1 ELSE 0)
  + Cardinality({k \in 1..Len(Live) : Fetching(Live[k], u)})

\* The last n elements of a sequence.
LastN(l, n) == IF Len(l) <= n THEN l ELSE SubSeq(l, Len(l) - n + 1, Len(l))

----------------------------------------------------------------------------
\* C1: in every reachable state of the processor, under any interleaving of
\* loadSound calls (succeeding or failing) and clearCache calls, the cache
\* holds at most maxCacheSize entries.
C1_CacheBound == Len(cache) <= maxCacheSize

\* A full cache that has already evicted, with another load still in flight.
C1_Witness ==
  /\ Len(cache) = maxCacheSize
  /\ Len(loadLog) = maxCacheSize + 1
  /\ \E k \in 1..Len(Live) : Live[k].pc = "decoding"

\* C2: eviction is FIFO by insertion order. While the URLs loaded since the
\* last clear are pairwise distinct, the cache holds exactly the last
\* maxCacheSize of them in insertion order: after maxCacheSize + 1 loads the
\* first-loaded URL is absent and the later ones are present, whatever
\* cache hits happened in between.
C2_FifoEviction == loadLog # <<0>> => cache = LastN(loadLog, maxCacheSize)

\* maxCacheSize + 1 distinct URLs loaded; the first was read from the full
\* cache while it was its oldest entry, and is evicted all the same.
C2_Witness ==
  /\ loadLog # <<0>>
  /\ Len(loadLog) = maxCacheSize + 1
  /\ Len(cache) = maxCacheSize
  /\ Head(loadLog) \in hits
  /\ ~Has(cache, Head(loadLog))

\* C3: two loadSound calls for the same URL that are in progress at the
\* same time share one fetch/decode: no two of them each have a load in flight.
C3_LoadDedup ==
  \A j, k \in 1..Len(Live) :
    (j # k /\ Live[j].api = "loadSound" /\ Live[k].api = "loadSound"
       /\ Live[j].url = Live[k].url)
    => ~(Fetching(Live[j], Live[j].url) /\ Fetching(Live[k], Live[k].url))

\* C4: with lazy loading enabled, whatever SoundPack.play calls are made, at
\* no time are two fetches for the same URL in flight.
C4_NoDuplicateFetch == lazyLoad => \A u \in Urls : InFlight(u) <= 1

\* C5: a URL is in loadingPromises exactly while the load behind it is
\* pending, so a play that awaits a tracker awaits a pending load (after a
\* failed load the next play starts a fresh one); and the cache holds only
\* the keys of completed loads, never a pending one.
C5_TrackerLifetime ==
  /\ \A u \in Urls : u \in loadingPromises <=> tracked[u] # "none"
  /\ \A k \in 1..Len(Live) : Live[k].pc = "awaitTracked" => tracked[Live[k].url] # "none"
  /\ loadLog # <<0>> => \A k \in 1..Len(cache) : Has(loadLog, cache[k])

\* A tracked load has just failed: the play that awaited it has been
\* rejected with the load error and the tracker is gone, the URL being
\* neither loaded nor cached.
C5_Witness ==
  /\ lazyLoad /\ fallback = "error"
  /\ \E k \in Done :
       /\ ops[k].api = "play" /\ ops[k].res = "LoadError"
       /\ ops[k].url \notin loadingPromises
       /\ ops[k].url \notin loadedSounds
       /\ ~Has(cache, ops[k].url)

\* C6: a loadSound call that fails rejects to its caller with the error,
\* starts no other load, and leaves the cache exactly as it was.
C6_LoadFailed(k) ==
  /\ k \in 1..Len(Live)
  /\ Live[k].api = "loadSound"
  /\ Live[k].pc \in {"fetching", "decoding"}
  /\ Len(ops') = Len(Live)
  /\ ops'[k].pc = "done"
  /\ ops'[k].res # "buffer"
C6_FailedLoadLeavesCache ==
  [][\A k \in 1..MaxOps :
       C6_LoadFailed(k) =>
         /\ cache' = cache
         /\ ops'[k].res \in {"LoadError", "DecodeError", "TypeError"}
         /\ \A j \in 1..Len(Live) : j # k => ops'[j] = Live[j]]_vars

\* A load has just been rejected and the cache still holds its entries.
C6_Witness ==
  /\ cache # <<>>
  /\ \E k \in Done : ops[k].api = "loadSound" /\ ops[k].res \in {"LoadError", "DecodeError"}

\* C7: after clear() the cache holds no entries and no in-flight load
\* tracker remains, whatever loads were pending.
C7_ClearDropsAll == [][Dispose => (cache' = <<>> /\ loadingPromises' = {})]_vars

\* C8: with a fallback strategy other than "error", no play or playVariant
\* call rejects.
C8_NeverRejects ==
  fallbackStrategy(fallback) # "error" =>
    \A k \in Done : ops[k].api \in {"play", "playVariant"} => ops[k].res \notin Errors

C10_ClosedContextFails ==
  \A k \in Done : ops[k].post => ops[k].res = "EngineUnavailable"

----------------------------------------------------------------------------
\* A runtime in which the packs and the processor are left alone: the state
\* after construction without a window.
Idle ==
  /\ hasWindow = FALSE /\ lazyLoad = FALSE /\ fallback = "silence"
  /\ context = "none" /\ cache = <<>>
  /\ loadedSounds = {} /\ loadingPromises = {}
  /\ tracked = [u \in Urls |-> "none"]
  /\ ops = <<>> /\ loadLog = <<>> /\ hits = {}

audio == <<config, context, cache, loadedSounds, loadingPromises, tracked,
           ops, loadLog, hits>>

----------------------------------------------------------------------------
\* Playback parameters. An optional value is a set of at most one element.
\* Pitch is in semitones; volume, playbackRate and pan are in hundredths
\* (volume 100 is 1, playbackRate 25 is 0.25, pan -100 is -1).
Min(a, b) == IF a < b THEN a ELSE b
Max(a, b) == IF a > b THEN a ELSE b

\* Math.max(lo, Math.min(hi, x))
clamp(lo, hi, x) == Max(lo, Min(hi, x))

\* PlaybackOptions a caller may pass.
PitchInputs == {{}, {-100}, {-24}, {7}, {24}, {100}}
VolumeInputs == {{}, {-50}, {0}, {50}, {100}, {200}}
RateInputs == {{}, {10}, {25}, {100}, {400}, {500}}
PanInputs == {{}, {-150}, {-100}, {30}, {150}}
PlaybackOptions ==
  [pitch : PitchInputs, volume : VolumeInputs, playbackRate : RateInputs, pan : PanInputs]

\* options.volume ?? 1
volumeOrDefault(o) == IF o.volume = {} THEN 100 ELSE CHOOSE v \in o.volume : TRUE

\* source.playbackRate.value after the pitch assignment: 2^(clampedPitch/12),
\* kept as its exponent in semitones.
pitchRate(o) == {[unit |-> "semitones", v |-> clamp(-24, 24, p)] : p \in o.pitch}

\* WebAudioProcessor.playWithPitch, the parameters it sets on the graph:
\* the direct playbackRate is assigned after the pitch and replaces it.
playWithPitchGraph(o) ==
  [ playbackRate |-> IF o.playbackRate # {}
                     THEN {[unit |-> "rate", v |-> clamp(25, 400, r)] : r \in o.playbackRate}
                     ELSE pitchRate(o),
    gain |-> {clamp(0, 100, volumeOrDefault(o))},
    pan  |-> {clamp(-100, 100, p) : p \in o.pan} ]

\* WebAudioProcessor.playWithEffects, the parameters it sets on the graph:
\* only the pitch and the volume of the playback options are read.
playWithEffectsGraph(o) ==
  [ playbackRate |-> pitchRate(o),
    gain |-> {volumeOrDefault(o)},
    pan  |-> {} ]

PlayWithPitchGraph(o) ==
  /\ call' = [op |-> "playWithPitch", options |-> o]
  /\ result' = playWithPitchGraph(o)
  /\ UNCHANGED <<audio, manager, front>>

PlayWithEffectsGraph(o) ==
  /\ call' = [op |-> "playWithEffects", options |-> o]
  /\ result' = playWithEffectsGraph(o)
  /\ UNCHANGED <<audio, manager, front>>

\* The manager before any pack is loaded.
NoPacks == packs = {} /\ activePack = <<>> /\ categoryOverrides = {} /\ switched = <<>>

InitGraph == Idle /\ NoPacks /\ call = NoCall /\ result = NoCall /\ NoFront

NextGraph ==
  \/ \E o \in PlaybackOptions : PlayWithPitchGraph(o)
  \/ \E o \in PlaybackOptions : PlayWithEffectsGraph(o)

SpecGraph == InitGraph /\ [][NextGraph]_vars

\* A parameter set on the graph is within its documented range.
RateInRange(r) ==
  IF r.unit = "semitones" THEN -24 <= r.v /\ r.v <= 24 ELSE 25 <= r.v /\ r.v <= 400

\* C11: every playback parameter applied to the audio graph lies within its
\* documented range for any caller input, on the pitch path and on the
\* effects path: pitch in [-24,24] (pitch 100 is applied as 24), volume in
\* [0,1], playbackRate in [0.25,4], pan in [-1,1].
C11_ParamsInRange ==
  call.op \in {"playWithPitch", "playWithEffects"} =>
    /\ \A r \in result.playbackRate : RateInRange(r)
    /\ \A g \in result.gain : 0 <= g /\ g <= 100
    /\ \A p \in result.pan : -100 <= p /\ p <= 100
    /\ (call.options.pitch = {100} /\ call.options.playbackRate = {}) =>
          result.playbackRate = {[unit |-> "semitones", v |-> 24]}

----------------------------------------------------------------------------
\* Format selection. A file name is the sequence of its dot-separated
\* segments: "click.mp3" is <<"click", "mp3">>, "click." is <<"click", "">>.
AudioFormats == {"mp3", "ogg", "wav", "webm"}

\* SoundPack.detectFormatSupport: nothing is probed without a window,
\* otherwise every format of formatTests gets a boolean.
FormatSupports == {<<>>} \cup [AudioFormats -> BOOLEAN]

\* formatSupport.get(format), as a condition
supports(fs, f) == f \in DOMAIN fs /\ fs[f]

\* manifest.formats?.preferred: absent (<<>>) or a list of extensions.
PreferredLists ==
  { <<>>, <<"mp3", "ogg", "wav">>, <<"ogg", "mp3">>, <<"mp3", "wav">>,
    <<"webm">>, <<"flac", "wav">> }

BaseFileNames == { <<"click">>, <<"click", "mp3">>, <<"ui", "click", "wav">>, <<"click", "">> }

\* The two builds of SoundPack in the repository.
Builds == {"source", "bundle"}

\* baseFileName.replace(/\.[^.]+$/, '')
cleanName(n) == IF Len(n) >= 2 /\ n[Len(n)] # "" THEN SubSeq(n, 1, Len(n) - 1) ELSE n

\* manifest.formats?.preferred || [...]
preferredOrDefault(b, pl) ==
  IF pl # <<>> THEN pl
  ELSE IF b = "source" THEN <<"mp3", "ogg", "wav">> ELSE <<"ogg", "mp3", "wav">>

\* The format returned when the loop finds no supported one.
lastResort(b, pref) == IF b = "source" THEN pref[1] ELSE "ogg"

\* SoundPack.getBestFormat
getBestFormat(b, fs, pl, n) ==
  LET pref == preferredOrDefault(b, pl)
      ok == {k \in 1..Len(pref) : supports(fs, pref[k])}
  IN  [ name |-> cleanName(n),
        ext  |-> IF ok # {} THEN pref[CHOOSE k \in ok : \A j \in ok : k <= j]
                 ELSE lastResort(b, pref) ]

GetBestFormat(b, fs, pl, n) ==
  /\ call' = [op |-> "getBestFormat", build |-> b, formatSupport |-> fs,
              preferred |-> pl, baseFileName |-> n]
  /\ result' = getBestFormat(b, fs, pl, n)
  /\ UNCHANGED <<audio, manager, front>>

NextFormat ==
  \E b \in Builds, fs \in FormatSupports, pl \in PreferredLists, n \in BaseFileNames :
    GetBestFormat(b, fs, pl, n)

SpecFormat == InitGraph /\ [][NextFormat]_vars

\* C12: bestFormat strips the extension of the base name and returns it with
\* the first extension of the preferred list that the runtime supports
\* (supported {ogg,wav}, preferred [mp3,ogg,wav], "click" gives "click.ogg");
\* when none is supported, nothing probed included, it returns the base name
\* with the first entry of the preferred list.
C12_BestFormat ==
  call.op = "getBestFormat" =>
    LET pref == preferredOrDefault(call.build, call.preferred)
        n == call.baseFileName
        fs == call.formatSupport
    IN
    /\ result.name = IF Len(n) >= 2 /\ n[Len(n)] # "" THEN SubSeq(n, 1, Len(n) - 1) ELSE n
    /\ \A k \in 1..Len(pref) :
         (supports(fs, pref[k]) /\ \A j \in 1..(k - 1) : ~supports(fs, pref[j]))
           => result.ext = pref[k]
    /\ (\A k \in 1..Len(pref) : ~supports(fs, pref[k])) => result.ext = pref[1]
    /\ (fs # <<>> /\ pref = <<"mp3", "ogg", "wav">> /\ n = <<"click">>
          /\ \A f \in AudioFormats : fs[f] <=> f \in {"ogg", "wav"})
         => result = [name |-> <<"click">>, ext |-> "ogg"]

----------------------------------------------------------------------------
\* SoundPackManager. The router state is the record
\* [packs, activePack, categoryOverrides]; activePack is <<>> for null and
\* <<name>> otherwise.
PackNames == {"", "retro", "soft"}
Categories == {"ui", "feedback"}

\* Paths given to play: the category is the first dot-separated segment.
ManagerPaths == { <<"ui", "click">>, <<"feedback", "success">>, <<"click">> }

\* Record<string, string>: at most one pack per category.
OverrideRecords ==
  { r \in SUBSET (Categories \X PackNames) :
      \A x, y \in r : x[1] = y[1] => x = y }

router == [packs |-> packs, activePack |-> activePack, categoryOverrides |-> categoryOverrides]

\* A string or null used as a condition.
Truthy(n) == n # <<>> /\ n # <<"">>

\* Map.get: <<>> for undefined.
mapGet(co, c) == IF \E x \in co : x[1] = c THEN <<(CHOOSE x \in co : x[1] = c)[2]>> ELSE <<>>

\* SoundPackManager.loadPack
loadPack(m, n) ==
  [ packs |-> m.packs \cup {n},
    activePack |-> IF ~Truthy(m.activePack) THEN <<n>> ELSE m.activePack,
    categoryOverrides |-> m.categoryOverrides ]

\* SoundPackManager.switchPack: the router after the call.
switchPackUnguarded(m, n) ==
  [m EXCEPT !.activePack = <<n>>, !.categoryOverrides = {}]
switchPack(m, n) ==
  IF n \notin m.packs THEN m
  ELSE [m EXCEPT !.activePack = <<n>>, !.categoryOverrides = {}]

\* SoundPackManager.useMixed: the router after the call.
useMixedAdditive(m, ov) ==
  [m EXCEPT !.categoryOverrides =
     {x \in m.categoryOverrides : \A y \in ov : y[2] \in m.packs => y[1] # x[1]}
       \cup {x \in ov : x[2] \in m.packs}]
useMixed(m, ov) ==
  [m EXCEPT !.categoryOverrides = {x \in ov : x[2] \in m.packs}]

\* SoundPackManager.dispose
managerDispose(m) == [packs |-> {}, activePack |-> <<>>, categoryOverrides |-> {}]

\* SoundPackManager.play: the packs whose play is called.
packNameFor(m, path) ==
  LET o == mapGet(m.categoryOverrides, Head(path))
  IN  IF Truthy(o) THEN o ELSE m.activePack
managerPlay(m, path) ==
  LET packName == packNameFor(m, path)
  IN  IF ~Truthy(packName) THEN {}
      ELSE IF packName[1] \notin m.packs THEN {}
      ELSE {packName[1]}

\* The router m becomes the state of the manager.
Install(m) ==
  /\ packs' = m.packs
  /\ activePack' = m.activePack
  /\ categoryOverrides' = m.categoryOverrides

\* What a manager call leaves behind: status is "ok" or the error thrown,
\* delegated the packs whose play was called.
Outcome(st, d) == [status |-> st, delegated |-> d]

LoadPack(n) ==
  /\ Install(loadPack(router, n))
  /\ call' = [op |-> "loadPack", name |-> n]
  /\ result' = Outcome("ok", {})
  /\ UNCHANGED <<audio, switched, front>>

SwitchPack(n) ==
  /\ Install(switchPack(router, n))
  /\ call' = [op |-> "switchPack", name |-> n]
  /\ result' = Outcome(IF n \in packs THEN "ok" ELSE "PackNotLoaded", {})
  /\ switched' = IF n \in packs THEN <<n>> ELSE switched
  /\ UNCHANGED <<audio, front>>

UseMixed(ov) ==
  /\ Install(useMixed(router, ov))
  /\ call' = [op |-> "useMixed", overrides |-> ov]
  /\ result' = Outcome("ok", {})
  /\ switched' = <<>>
  /\ UNCHANGED <<audio, front>>

ManagerPlay(path) ==
  /\ call' = [op |-> "play", path |-> path]
  /\ result' = Outcome("ok", managerPlay(router, path))
  /\ UNCHANGED <<audio, manager, front>>

ManagerDispose ==
  /\ Install(managerDispose(router))
  /\ call' = [op |-> "dispose"]
  /\ result' = Outcome("ok", {})
  /\ switched' = <<>>
  /\ UNCHANGED <<audio, front>>

NextManager ==
  \/ \E n \in PackNames : LoadPack(n)
  \/ \E n \in PackNames : SwitchPack(n)
  \/ \E ov \in OverrideRecords : UseMixed(ov)
  \/ \E path \in ManagerPaths : ManagerPlay(path)
  \/ ManagerDispose

SpecManager == InitGraph /\ [][NextManager]_vars

\* C13: switchPack(name) with a name that is not a loaded pack fails with
\* the pack-not-loaded error and leaves the router unchanged: the active pack
\* and all category overrides are the same as before the call.
C13_SwitchUnknownFails ==
  [][\A n \in PackNames :
       (SwitchPack(n) /\ n \notin packs) =>
          /\ result'.status = "PackNotLoaded"
          /\ activePack' = activePack
          /\ categoryOverrides' = categoryOverrides
          /\ packs' = packs]_vars

\* switchPack has just failed on a router with an active pack and overrides.
C13_Witness ==
  /\ call.op = "switchPack" /\ result.status = "PackNotLoaded"
  /\ call.name \notin packs
  /\ activePack # <<>> /\ categoryOverrides # {}

\* C14: after every successful switchPack(name), name is the single active
\* pack and the set of category overrides is empty, so every subsequent play
\* is routed to name until useMixed is called again.
C14_SwitchResets ==
  switched # <<>> =>
    /\ activePack = switched
    /\ categoryOverrides = {}
    /\ call.op = "play" => result.delegated = {switched[1]}

\* C15: after any sequence of loadPack, switchPack, useMixed and dispose the
\* active pack is unset or names a loaded pack and every category override
\* names a loaded pack; useMixed never throws and registers exactly the
\* pairs of its argument whose pack is loaded, discarding earlier overrides.
C15_RouterNamesLoaded ==
  /\ activePack = <<>> \/ activePack[1] \in packs
  /\ \A x \in categoryOverrides : x[2] \in packs
  /\ call.op = "useMixed" =>
       /\ result.status = "ok"
       /\ categoryOverrides = {x \in call.overrides : x[2] \in packs}

\* useMixed has just skipped a pair naming an unknown pack and registered
\* another one.
C15_Witness ==
  /\ call.op = "useMixed"
  /\ \E x \in call.overrides : x[2] \notin packs
  /\ categoryOverrides # {}
  /\ activePack # <<>>

\* C16: play(path) delegates to exactly one pack: the override pack
\* registered for the category of the path if there is one, otherwise the
\* active pack; when no pack can be determined (nothing loaded, or after
\* dispose) the call resolves as a no-op, calling no pack and not throwing.
C16_PlayRouting ==
  call.op = "play" =>
    LET ov == {x \in categoryOverrides : x[1] = Head(call.path)}
    IN  /\ result.status = "ok"
        /\ result.delegated =
             IF ov # {} THEN {x[2] : x \in ov}
             ELSE IF activePack # <<>> THEN {activePack[1]}
             ELSE {}

----------------------------------------------------------------------------
\* SynthEngine.playSound: the schedule of the oscillators. Times are in
\* milliseconds.
Nows == {0, 500}
Attacks == {5, 10, 1000}
Decays == {50, 120}
Releases == {80, 300, 1000}
\* config.harmonics, by its length (0 when absent or empty)
HarmonicCounts == 0..2
\* config.modulation?.type ("absent" without a modulation entry)
ModulationTypes == {"absent", "none", "vibrato", "tremolo"}

SynthConfigs ==
  [attack : Attacks, decay : Decays, release : Releases,
   harmonics : HarmonicCounts, modulation : ModulationTypes]

\* The time after its start at which the modulation oscillator is stopped.
LfoDuration == 2000

\* config.envelope.attack + config.envelope.decay + config.envelope.release
totalDurationNoRelease(cfg) == cfg.attack + cfg.decay
totalDuration(cfg) == cfg.attack + cfg.decay + cfg.release

\* SynthEngine.applyModulation: the schedule of the LFO.
applyModulation(cfg, startTime) ==
  IF cfg.modulation \in {"absent", "none"} THEN {}
  ELSE {[start |-> startTime, stop |-> startTime + LfoDuration]}

\* SynthEngine.playSound: the base oscillator and one per harmonic, all
\* started at now and stopped at now + totalDuration.
playSound(cfg, now) ==
  [ oscillators |-> [k \in 1..(1 + cfg.harmonics) |->
                       [start |-> now, stop |-> now + totalDuration(cfg)]],
    lfo |-> applyModulation(cfg, now) ]

PlaySound(cfg, now) ==
  /\ call' = [op |-> "playSound", config |-> cfg, now |-> now]
  /\ result' = playSound(cfg, now)
  /\ UNCHANGED <<audio, manager, front>>

NextSynth == \E cfg \in SynthConfigs, now \in Nows : PlaySound(cfg, now)

SpecSynth == InitGraph /\ [][NextSynth]_vars

\* The tone oscillators start at t0 and stop at t0 + attack + decay + release.
TonesTogether ==
  \A k \in 1..Len(result.oscillators) :
    /\ result.oscillators[k].start = call.now
    /\ result.oscillators[k].stop =
         call.now + call.config.attack + call.config.decay + call.config.release

\* C17 (as stated): for every preset played by the synthesizer, all tone
\* oscillators and the modulation oscillator (when modulation is vibrato or
\* tremolo) are started at the same time t0 and are all scheduled to stop at
\* t0 + attack + decay + release.
C17_AllStopTogether ==
  call.op = "playSound" =>
    /\ TonesTogether
    /\ call.config.modulation \in {"vibrato", "tremolo"} => result.lfo # {}
    /\ \A l \in result.lfo :
         /\ l.start = call.now
         /\ l.stop = call.now + call.config.attack + call.config.decay + call.config.release

\* C17 (amended): all tone oscillators are started at t0 and scheduled to
\* stop at t0 + attack + decay + release; the modulation oscillator, present
\* exactly when modulation is vibrato or tremolo, is started at t0 as well
\* and scheduled to stop 2 seconds after t0, whatever the envelope.
C17_TonesStopTogether ==
  call.op = "playSound" =>
    /\ Len(result.oscillators) = 1 + call.config.harmonics
    /\ TonesTogether
    /\ call.config.modulation \in {"vibrato", "tremolo"} <=> result.lfo # {}
    /\ \A l \in result.lfo : l.start = call.now /\ l.stop = call.now + 2000

\* A preset with harmonics and vibrato whose envelope outlasts the LFO.
C17_Witness ==
  /\ call.op = "playSound"
  /\ call.config.modulation = "vibrato" /\ call.config.harmonics = 2
  /\ call.now > 0
  /\ \E l \in result.lfo : l.stop < result.oscillators[3].stop

----------------------------------------------------------------------------
\* Gradients and harmonic sets. A number that need not be an integer is a
\* fraction <<numerator, denominator>>; 0/0 (NaN) has denominator 0.
FracSub(a, b) == <<a[1] * b[2] - b[1] * a[2], a[2] * b[2]>>
FracAdd(a, b) == <<a[1] * b[2] + b[1] * a[2], a[2] * b[2]>>
FracMul(a, b) == <<a[1] * b[1], a[2] * b[2]>>
\* Comparisons of fractions with positive denominators; NaN equals nothing.
FracEq(a, b) == a[2] > 0 /\ b[2] > 0 /\ a[1] * b[2] = b[1] * a[2]
FracLess(a, b) == a[2] > 0 /\ b[2] > 0 /\ a[1] * b[2] < b[1] * a[2]

\* GradientOptions: type and range are optional ({} when absent).
GradientTypes == {{}, {"pitch"}, {"volume"}, {"filter"}}
GradientRanges == {{}, {0}, {3}, {8}, {-8}}

\* options.type || 'pitch'
typeOrNone(t) == IF t = {} THEN "none" ELSE CHOOSE x \in t : TRUE
typeOrDefault(t) == IF t = {} THEN "pitch" ELSE CHOOSE x \in t : TRUE

\* options.range || 8
rangeOrDefault(r) == IF r = {} \/ r = {0} THEN 8 ELSE CHOOSE x \in r : TRUE

\* i / (steps - 1)
positionOverSteps(i, steps) == <<i, steps>>
position(i, steps) == <<i, steps - 1>>

\* The options the i-th callable passes to play (i from 0).
gradientOptions(type, range, i, steps) ==
  IF type = "pitch"
  THEN [pitch |-> {FracMul(FracSub(position(i, steps), <<1, 2>>), <<range, 1>>)},
        volume |-> {}]
  ELSE IF type = "volume"
  THEN [pitch |-> {},
        volume |-> {FracAdd(<<3, 10>>, FracMul(<<7, 10>>, position(i, steps)))}]
  ELSE [pitch |-> {}, volume |-> {}]

\* SoundPack.createGradient: the callables, each by the options it passes.
createGradient(steps, t, r) ==
  [k \in 1..steps |-> gradientOptions(typeOrDefault(t), rangeOrDefault(r), k - 1, steps)]

CreateGradient(steps, t, r) ==
  /\ call' = [op |-> "createGradient", steps |-> steps, type |-> t, range |-> r]
  /\ result' = createGradient(steps, t, r)
  /\ UNCHANGED <<audio, manager, front>>

\* MusicalScale and the table of createHarmonicSet.
scales ==
  [ major |-> <<0, 2, 4, 5, 7, 9, 11, 12>>,
    minor |-> <<0, 2, 3, 5, 7, 8, 10, 12>>,
    pentatonic |-> <<0, 2, 4, 7, 9, 12>>,
    chromatic |-> <<0, 1, 2, 3, 4, 5, 6, 7, 8, 9, 10, 11, 12>> ]

\* The pitch of the i-th callable (i from 0): note index and octave.
harmonicPitchNoOctave(intervals, i) == intervals[(i % Len(intervals)) + 1]
harmonicPitch(intervals, i) ==
  intervals[(i % Len(intervals)) + 1] + (i \div Len(intervals)) * 12

\* SoundPack.createHarmonicSet: the callables, each by the pitch it passes.
createHarmonicSet(count, scale) ==
  [k \in 1..count |-> harmonicPitch(scales[scale], k - 1)]

CreateHarmonicSet(count, scale) ==
  /\ call' = [op |-> "createHarmonicSet", count |-> count, scale |-> scale]
  /\ result' = createHarmonicSet(count, scale)
  /\ UNCHANGED <<audio, manager, front>>

NextSequences ==
  \/ \E steps \in 0..MaxSteps, t \in GradientTypes, r \in GradientRanges :
       CreateGradient(steps, t, r)
  \/ \E count \in 0..MaxCount, scale \in DOMAIN scales : CreateHarmonicSet(count, scale)

SpecSequences == InitGraph /\ [][NextSequences]_vars

\* The pitch callable k (from 1) passes to play, when it passes exactly one.
PitchOf(k) == CHOOSE p \in result[k].pitch : TRUE

\* The callables play with pitch (i/(n-1) - 0.5) * r: n of them, each passing
\* a pitch and no volume, -r/2 first and +r/2 last, symmetric around zero
\* and, for a positive r, strictly increasing (n = 4, r = 8: -4, -4/3, 4/3, 4).
PitchSpread(n, r) ==
  /\ Len(result) = n
  /\ \A k \in 1..n :
       /\ result[k].volume = {} /\ Cardinality(result[k].pitch) = 1
       /\ FracEq(PitchOf(k), <<(2 * (k - 1) - (n - 1)) * r, 2 * (n - 1)>>)
       /\ FracEq(PitchOf(k), FracMul(<<-1, 1>>, PitchOf(n + 1 - k)))
  /\ FracEq(PitchOf(1), <<-r, 2>>) /\ FracEq(PitchOf(n), <<r, 2>>)
  /\ r > 0 => \A k \in 1..(n - 1) : FracLess(PitchOf(k), PitchOf(k + 1))
  /\ (n = 4 /\ r = 8) =>
       /\ FracEq(PitchOf(1), <<-4, 1>>) /\ FracEq(PitchOf(2), <<-4, 3>>)
       /\ FracEq(PitchOf(3), <<4, 3>>) /\ FracEq(PitchOf(4), <<4, 1>>)

\* createGradient was called with type "pitch", a range and steps >= 2.
PitchGradientCall ==
  call.op = "createGradient" /\ call.type = {"pitch"} /\ call.range # {} /\ call.steps >= 2

\* C18 (as stated): createGradient(path, steps, {type: "pitch", range}) with
\* steps >= 2 returns exactly steps callables, and callable i plays with pitch
\* (i/(steps-1) - 0.5) * range for the range given: index 0 gets -range/2,
\* index steps-1 gets +range/2, pitches symmetric around zero and strictly
\* increasing with i.
C18_PitchGradient ==
  PitchGradientCall => PitchSpread(call.steps, CHOOSE x \in call.range : TRUE)

\* C18 (amended): the same for every non-zero range; a range of 0 counts as
\* not given and the spread is that of the default range 8.
C18_PitchGradientDefaulted ==
  PitchGradientCall =>
    LET r == CHOOSE x \in call.range : TRUE
    IN  PitchSpread(call.steps, IF r = 0 THEN 8 ELSE r)

\* The gradient of 4 steps over a range of 8 has been built.
C18_Witness ==
  /\ PitchGradientCall /\ call.steps = 4 /\ call.range = {8}
  /\ Len(result) = 4 /\ result[2].pitch # {}

\* Every callable replays the sound unmodified: play gets no options.
Unmodified ==
  /\ Len(result) = call.steps
  /\ \A k \in 1..Len(result) : result[k].pitch = {} /\ result[k].volume = {}

\* C19 (as stated): createGradient called with a type that is neither
\* "pitch" nor "volume", or with no type at all, returns steps callables that
\* each replay the sound unmodified: no pitch or volume is passed to play.
C19_OtherTypeUnmodified ==
  (call.op = "createGradient" /\ call.type \notin {{"pitch"}, {"volume"}}) => Unmodified

\* C19 (amended): with a type that is given and is neither "pitch" nor
\* "volume" the steps callables replay the sound unmodified; with no type at
\* all the type is "pitch": every callable passes a pitch and no volume, the
\* pitches being those of the pitch gradient over the range (8 when the
\* range is absent or 0).
C19_GivenOtherTypeUnmodified ==
  call.op = "createGradient" =>
    /\ call.type = {"filter"} => Unmodified
    /\ call.type = {} =>
         /\ Len(result) = call.steps
         /\ \A k \in 1..Len(result) :
              result[k].volume = {} /\ Cardinality(result[k].pitch) = 1
         /\ call.steps >= 2 =>
              PitchSpread(call.steps,
                          IF call.range \in {{}, {0}} THEN 8 ELSE CHOOSE x \in call.range : TRUE)

\* A gradient of three steps has been built for the type "filter".
C19_Witness ==
  /\ call.op = "createGradient" /\ call.type = {"filter"} /\ call.steps = 3
  /\ Len(result) = 3 /\ result[3].pitch = {}

\* C20: createHarmonicSet(path, count, scale) returns count callables where
\* callable i plays with pitch intervals[i mod len] + 12 * floor(i / len) for
\* the interval table of the scale, wrapping into the next octave when count
\* exceeds the table length (pentatonic, length 6: index 6 gets pitch 12).
C20_HarmonicWrap ==
  call.op = "createHarmonicSet" =>
    LET intervals == scales[call.scale]
        len == Len(intervals)
    IN
    /\ Len(result) = call.count
    /\ \A i \in 0..(call.count - 1) :
         \E note \in 0..(len - 1), octave \in 0..call.count :
           /\ i = octave * len + note
           /\ result[i + 1] = intervals[note + 1] + 12 * octave
    /\ (call.scale = "pentatonic" /\ call.count >= 7) =>
         len = 6 /\ result[6] = 12 /\ result[7] = 12

\* A pentatonic set of more callables than the table has entries.
C20_Witness ==
  /\ call.op = "createHarmonicSet" /\ call.scale = "pentatonic" /\ call.count = 8
  /\ Len(result) = 8 /\ result[8] = 14

----------------------------------------------------------------------------
\* SoundPack.playVariant on a structured manifest entry, the file it picks.
\* An entry declares a default file and, optionally, a variants list.
MaxVariants == 3

VariantLists == UNION {[1..n -> Urls] : n \in 0..MaxVariants}

StructuredEntries ==
  [default : Urls, hasVariants : {FALSE}, variants : {<<>>}]
    \cup [default : Urls, hasVariants : {TRUE}, variants : VariantLists]

\* soundConfig.variants || [soundConfig.default]: an array, even an empty
\* one, is truthy.
variantsOrDefault(cfg) == IF cfg.hasVariants THEN cfg.variants ELSE <<cfg.default>>

\* Math.floor(Math.random() * variants.length): the indices that can be drawn
\* (from 0; index 0 of an empty list).
randomIndices(variants) == IF variants = <<>> THEN {0} ELSE 0..(Len(variants) - 1)

\* variants[i]: {} for undefined.
randomFile(variants, i) == IF i + 1 \in 1..Len(variants) THEN {variants[i + 1]} ELSE {}

\* playVariant up to the request: getBestFormat(undefined) throws a
\* TypeError, otherwise the file is requested through playWithPitch.
playVariantFile(cfg, i) ==
  LET f == randomFile(variantsOrDefault(cfg), i)
  IN  [requested |-> f, threw |-> IF f = {} THEN "TypeError" ELSE "none"]

PlayVariantFile(cfg, i) ==
  /\ i \in randomIndices(variantsOrDefault(cfg))
  /\ call' = [op |-> "playVariant", entry |-> cfg, index |-> i]
  /\ result' = playVariantFile(cfg, i)
  /\ UNCHANGED <<audio, manager, front>>

NextVariant == \E cfg \in StructuredEntries, i \in 0..MaxVariants : PlayVariantFile(cfg, i)

SpecVariant == InitGraph /\ [][NextVariant]_vars

\* The files a structured entry declares for playVariant.
DeclaredFiles(cfg) ==
  IF cfg.hasVariants /\ cfg.variants # <<>>
  THEN {cfg.variants[k] : k \in 1..Len(cfg.variants)}
  ELSE {cfg.default}

\* C21: for a structured manifest entry, the file playVariant requests is
\* always a file declared by that entry: a member of its variants list when
\* variants are declared, the default file when none are declared (an empty
\* variants list included); it never requests an undefined file.
C21_VariantDeclared ==
  call.op = "playVariant" =>
    /\ result.threw = "none"
    /\ result.requested # {}
    /\ result.requested \subseteq DeclaredFiles(call.entry)

----------------------------------------------------------------------------
\* The JuicySounds front end. Volumes are in hundredths (15 is 0.15); the
\* gain of a played sound is in ten-thousandths (a volume times the global
\* volume). A path is the sequence of its dot-separated segments.

\* A value of the manifest: a file name, a list or a number.
File(f) == [type |-> "string", file |-> f]
List == [type |-> "array"]
Num(n) == [type |-> "number", value |-> n]

\* initializeDefaultPack: the sounds of the default manifest.
DefaultSounds ==
  [ click        |-> [default |-> File("click_001.ogg"), variants |-> List, volume |-> Num(15)],
    hover        |-> [default |-> File("select_001.ogg"), variants |-> List, volume |-> Num(5)],
    success      |-> [default |-> File("confirmation_001.ogg"), variants |-> List, volume |-> Num(30)],
    error        |-> [default |-> File("error_001.ogg"), variants |-> List, volume |-> Num(30)],
    notification |-> [default |-> File("glass_001.ogg"), variants |-> List, volume |-> Num(25)],
    toggle       |-> [on |-> File("switch_001.ogg"), off |-> File("switch_002.ogg"), volume |-> Num(20)],
    panel        |-> [open |-> File("open_001.ogg"), close |-> File("close_001.ogg"), volume |-> Num(15)] ]

\* manifest.sounds[category]?.[action]: empty when undefined.
soundConfigOf(category, action) ==
  IF category \in DOMAIN DefaultSounds
  THEN IF action \in DOMAIN DefaultSounds[category]
       THEN {DefaultSounds[category][action]}
       ELSE {}
  ELSE {}

\* SoundPack.resolveSound on the default manifest, with the options it
\* returns: a string gives its file and no options; any other value gives
\* its own default and volume properties, which a list or a number lacks.
resolveSoundOptions(path) ==
  LET category == path[1]
      action == IF Len(path) >= 2 THEN path[2] ELSE "default"
      soundConfig == soundConfigOf(category, action)
  IN  IF soundConfig = {} THEN [status |-> "SoundNotFound", file |-> {}, volume |-> {}]
      ELSE LET c == CHOOSE x \in soundConfig : TRUE
           IN  IF c.type = "string"
               THEN [status |-> "ok", file |-> {c.file}, volume |-> {}]
               ELSE [status |-> "ok", file |-> {}, volume |-> {}]

\* { ...defaultOptions, ...options } for the volume.
mergeVolume(d, o) == IF o # {} THEN o ELSE d

\* SoundPack.play on the default pack: the file requested, the gain set and
\* the way the call ended (the manifest declares the fallback 'silence', so
\* a failure gives the dummy source). loads tells whether the fetch succeeds.
packPlay(path, volume, loads) ==
  LET r == resolveSoundOptions(path)
  IN  IF r.status # "ok" THEN [file |-> {}, gain |-> {}, status |-> r.status]
      ELSE IF r.file = {} THEN [file |-> {}, gain |-> {}, status |-> "TypeError"]
      ELSE IF ~loads THEN [file |-> r.file, gain |-> {}, status |-> "LoadError"]
      ELSE [file |-> r.file, gain |-> mergeVolume(r.volume, volume), status |-> "ok"]

\* The JuicySounds instance.
instance == [globalVolume |-> globalVolume, isMuted |-> isMuted, synthetic |-> synthetic]

\* What a call of the front end leaves behind.
Silent == [packCalled |-> FALSE, file |-> {}, gain |-> {}, status |-> "returned", nodes |-> {}, rejected |-> FALSE]

\* options.volume ?? 1, times the global volume
finalVolume(j, volume) ==
  IF volume = {} THEN {100 * j.globalVolume}
  ELSE {(CHOOSE v \in volume : TRUE) * j.globalVolume}

\* JuicySounds.play: every failure of the manager is swallowed.
juicyPlayUngated(j, sound, volume, loads) ==
  LET p == packPlay(sound, finalVolume(j, volume), loads)
  IN  [packCalled |-> TRUE, file |-> p.file, gain |-> p.gain, status |-> p.status,
       nodes |-> IF p.status = "ok" THEN {"source", "gain"} ELSE {}, rejected |-> FALSE]
juicyPlay(j, sound, volume, loads) ==
  IF j.isMuted THEN Silent
  ELSE LET p == packPlay(sound, finalVolume(j, volume), loads)
       IN  [packCalled |-> TRUE, file |-> p.file, gain |-> p.gain, status |-> p.status,
            nodes |-> IF p.status = "ok" THEN {"source", "gain"} ELSE {}, rejected |-> FALSE]

\* playRandomClick: the names it chooses from.
clickVariants == << <<"click">>, <<"click", "variant1">>, <<"click", "variant2">> >>

\* JuicySounds.playGradientSound: the step of the scale played.
freqIndex(index, total) == Min((index * 6) \div total, 5)
playGradientSound(j, index, total) ==
  IF j.isMuted \/ ~j.synthetic THEN Silent
  ELSE [Silent EXCEPT !.status = "ok", !.nodes = {"oscillator", "gain"},
                      !.gain = {15 * j.globalVolume},
                      !.file = {freqIndex(index, total)}]

\* this.config.volume || 1 and this.config.muted || false
volumeOrOne(v) == IF v = {} \/ v = {0} THEN 100 ELSE CHOOSE x \in v : TRUE
mutedOrFalse(m) == m = {TRUE}

\* JuicySounds.setVolume
setVolume(v) == Max(0, Min(100, v))

\* Inputs of the front end.
ConfigVolumes == {{}, {0}, {50}, {100}, {200}}
ConfigMuted == {{}, {FALSE}, {TRUE}}
SetVolumes == {-50, 0, 30, 100, 150}
OptionVolumes == {{}, {0}, {30}, {100}}
SoundNames == { <<"click">>, <<"hover">>, <<"toggle", "on">>, <<"click", "variants">>, <<"ghost">> }
MaxTotal == 3

Constructed == call.op # "none"

\* new JuicySounds(config)
Construct(v, m, s) ==
  /\ ~Constructed
  /\ globalVolume' = volumeOrOne(v)
  /\ isMuted' = mutedOrFalse(m)
  /\ synthetic' = s
  /\ call' = [op |-> "new", volume |-> v, muted |-> m, synthetic |-> s]
  /\ result' = NoCall
  /\ UNCHANGED <<audio, manager, throttle, typewriter>>

JuicyPlay(sound, volume, loads) ==
  /\ Constructed
  /\ call' = [op |-> "play", sound |-> sound, volume |-> volume]
  /\ result' = juicyPlay(instance, sound, volume, loads)
  /\ UNCHANGED <<audio, manager, front>>

PlayRandomClick(i, loads) ==
  /\ Constructed
  /\ call' = [op |-> "playRandomClick", sound |-> clickVariants[i]]
  /\ result' = juicyPlay(instance, clickVariants[i], {}, loads)
  /\ UNCHANGED <<audio, manager, front>>

PlayGradientSound(index, total) ==
  /\ Constructed
  /\ call' = [op |-> "playGradientSound", index |-> index, total |-> total]
  /\ result' = playGradientSound(instance, index, total)
  /\ UNCHANGED <<audio, manager, front>>

SetVolume(v) ==
  /\ Constructed
  /\ globalVolume' = setVolume(v)
  /\ call' = [op |-> "setVolume", volume |-> v]
  /\ result' = NoCall
  /\ UNCHANGED <<audio, manager, isMuted, synthetic, throttle, typewriter>>

Mute ==
  /\ Constructed
  /\ isMuted' = TRUE
  /\ call' = [op |-> "mute"]
  /\ result' = NoCall
  /\ UNCHANGED <<audio, manager, globalVolume, synthetic, throttle, typewriter>>

Unmute ==
  /\ Constructed
  /\ isMuted' = FALSE
  /\ call' = [op |-> "unmute"]
  /\ result' = NoCall
  /\ UNCHANGED <<audio, manager, globalVolume, synthetic, throttle, typewriter>>

Toggle ==
  /\ Constructed
  /\ isMuted' = ~isMuted
  /\ call' = [op |-> "toggle", before |-> isMuted]
  /\ result' = NoCall
  /\ UNCHANGED <<audio, manager, globalVolume, synthetic, throttle, typewriter>>

NextJuicy ==
  \/ \E v \in ConfigVolumes, m \in ConfigMuted, s \in BOOLEAN : Construct(v, m, s)
  \/ \E sound \in SoundNames, volume \in OptionVolumes, loads \in BOOLEAN : JuicyPlay(sound, volume, loads)
  \/ \E i \in 1..Len(clickVariants), loads \in BOOLEAN : PlayRandomClick(i, loads)
  \/ \E index \in 0..MaxTotal, total \in 1..MaxTotal : PlayGradientSound(index, total)
  \/ \E v \in SetVolumes : SetVolume(v)
  \/ Mute
  \/ Unmute
  \/ Toggle

SpecJuicy == InitGraph /\ [][NextJuicy]_vars

\* The volume preset the manifest declares for a sound.
Preset(sound) == DefaultSounds[sound[1]].volume.value

\* C22: a sound played through JuicySounds.play without a volume option is
\* played at the volume preset of its manifest entry (click 0.15, hover
\* 0.05) scaled by the global volume; with a volume option it is played at
\* that volume scaled by the global volume.
C22_PresetVolume ==
  (call.op = "play" /\ result.status = "ok" /\ call.sound \in {<<"click">>, <<"hover">>}) =>
    IF call.volume = {}
    THEN result.gain = {Preset(call.sound) * globalVolume}
    ELSE result.gain = {(CHOOSE v \in call.volume : TRUE) * globalVolume}

\* C24: every name playRandomClick chooses resolves to a sound of the default
\* manifest.
C24_RandomClickResolves ==
  call.op = "playRandomClick" => resolveSoundOptions(call.sound).status = "ok"

\* C25: while the instance is muted (constructed with muted: true, after
\* mute(), after an odd number of toggles) play, playRandomClick and
\* playGradientSound call no pack, request no file and create no audio
\* node; when it is not muted, play calls the pack and playGradientSound
\* with the synthetic tones enabled creates its nodes; play never rejects.
C25_MutedSilent ==
  /\ call.op = "new" => isMuted = (call.muted = {TRUE})
  /\ call.op = "mute" => isMuted
  /\ call.op = "unmute" => ~isMuted
  /\ call.op = "toggle" => isMuted = ~call.before
  /\ (call.op \in {"play", "playRandomClick", "playGradientSound"} /\ isMuted) =>
       /\ ~result.packCalled /\ result.file = {} /\ result.nodes = {}
  /\ (call.op \in {"play", "playRandomClick"} /\ ~isMuted) => result.packCalled
  /\ (call.op = "playGradientSound" /\ ~isMuted /\ synthetic) => result.nodes # {}
  /\ call.op \in {"play", "playRandomClick"} => ~result.rejected

C25_Witness ==
  /\ call.op = "play" /\ isMuted /\ ~result.packCalled
  /\ call.sound = <<"click">>

\* C27: the global volume is within [0, 1] in every state, equals the
\* configured volume when that is within [0, 1] (0 stays 0), and after
\* setVolume is the volume given, clamped.
C27_VolumeInRange ==
  /\ globalVolume \in 0..100
  /\ (call.op = "new" /\ call.volume # {} /\ call.volume \subseteq 0..100) =>
       call.volume = {globalVolume}
  /\ call.op = "setVolume" => globalVolume = Max(0, Min(100, call.volume))

----------------------------------------------------------------------------
\* throttleSound. Time is in units of 50 ms; clock is the last reading of
\* Date.now(), which is far beyond every delay and need not be monotonic.
\* lastInvoked[f] is the time of the last invocation of soundFn through f.
Epoch == 4
MaxTime == 9

\* throttledSounds.sliderStep (150 ms), throttledSounds.hover (200 ms) and
\* throttleSound(fn, undefined, "hover") with the default delay of 100 ms.
minDelay == [sliderStep |-> 3, hover |-> 4, custom |-> 2]
soundKey == [sliderStep |-> "slider-step", hover |-> "hover", custom |-> "hover"]

\* lastPlayTimes.get(soundKey) || 0
lastPlayOrZero(t) == IF t = {} THEN 0 ELSE CHOOSE x \in t : TRUE

\* The function returned by throttleSound, called at now: the table after
\* the call and whether soundFn was invoked.
throttledAlways(table, f, now) ==
  [table |-> [table EXCEPT ![soundKey[f]] = {now}], invoked |-> TRUE]
throttled(table, f, now) ==
  IF now - lastPlayOrZero(table[soundKey[f]]) >= minDelay[f]
  THEN [table |-> [table EXCEPT ![soundKey[f]] = {now}], invoked |-> TRUE]
  ELSE [table |-> table, invoked |-> FALSE]

ThrottledCall(f, now) ==
  LET r == throttled(lastPlayTimes, f, now)
  IN  /\ clock' = now
      /\ lastPlayTimes' = r.table
      /\ lastInvoked' = IF r.invoked THEN [lastInvoked EXCEPT ![f] = {now}] ELSE lastInvoked
      /\ call' = [op |-> "throttled", fn |-> f, now |-> now]
      /\ result' = [invoked |-> r.invoked]
      /\ UNCHANGED <<audio, manager, juicy, typewriter>>

NextThrottle == \E f \in Throttled, now \in Epoch..MaxTime : ThrottledCall(f, now)

SpecThrottle == InitGraph /\ [][NextThrottle]_vars

\* C23: a call of a throttled function invokes the underlying function only
\* when at least its own minDelay has passed since the time recorded for its
\* sound key; a suppressed call invokes nothing and leaves the recorded times
\* as they were; two invocations through the same throttled function are at
\* least its minDelay apart.
C23_Throttle ==
  [][ \A f \in Throttled :
        (call'.op = "throttled" /\ call'.fn = f) =>
          /\ result'.invoked =>
               /\ call'.now - lastPlayOrZero(lastPlayTimes[soundKey[f]]) >= minDelay[f]
               /\ \A t \in lastInvoked[f] : call'.now - t >= minDelay[f]
               /\ lastPlayTimes'[soundKey[f]] = {call'.now}
          /\ ~result'.invoked =>
               /\ lastPlayTimes' = lastPlayTimes
               /\ lastInvoked' = lastInvoked ]_vars

\* A function sharing the key of another has been invoked after it.
C23_Witness ==
  /\ call.op = "throttled" /\ call.fn = "custom" /\ result.invoked
  /\ lastInvoked["hover"] # {} /\ lastInvoked["hover"] # {clock}
  /\ lastInvoked["custom"] = {clock}

----------------------------------------------------------------------------
\* A load completes successfully in this step.
LoadCompletes == \E k \in 1..MaxOps : DecodeOk(k)

Evicts == \E u \in Urls : Has(cache, u) /\ ~Has(cache', u)
AddsKey == \E u \in Urls : ~Has(cache, u) /\ Has(cache', u)

\* C26: once the cache holds maxCacheSize entries, a successful load leaves
\* it holding exactly maxCacheSize, under any interleaving of loads
\* (concurrent loads of one URL included); a load completion never evicts an
\* entry without adding a new key; only clearCache and dispose make the
\* cache smaller.
C26_FullCacheStaysFull ==
  [][ /\ (Len(cache) = maxCacheSize /\ LoadCompletes) => Len(cache') = maxCacheSize
      /\ (LoadCompletes /\ Evicts) => AddsKey
      /\ Len(cache') < Len(cache) => (ClearCache \/ Dispose) ]_vars

----------------------------------------------------------------------------
\* The TypeWriter. The sound, volume and pitch chosen for a key are left
\* out: a call of keyDown or keyUp is described by the number of sounds it
\* plays through its JuicySounds instance.
Keys == {"a", "Enter", " "}
Styles == {"mechanical", "soft"}
Selectors == {"input", "textarea", "input, textarea"}
TypeWriterConfigs == [enabled : {{}, {FALSE}, {TRUE}}, keyUpSounds : BOOLEAN, style : Styles]
MaxListeners == 3

\* document.querySelectorAll(selector)
querySelectorAll(selector) ==
  IF ~hasWindow THEN {}
  ELSE IF selector = "input, textarea" THEN Elements
  ELSE {selector}

\* The value the configuration asks for: enabled defaults to true.
configuredEnabled(cfg) == IF cfg.enabled = {} THEN TRUE ELSE cfg.enabled = {TRUE}

\* this.config.enabled || true
enabledOrTrue(cfg) == configuredEnabled(cfg) \/ TRUE

\* TypeWriter.keyDown and TypeWriter.keyUp: the sounds played.
keyDown(en) == IF ~en THEN 0 ELSE 1
keyUp(en, cfg) ==
  IF ~en \/ ~cfg.keyUpSounds THEN 0
  ELSE IF cfg.style = "mechanical" THEN 1 ELSE 0

\* TypeWriter.attach: the listeners after the call.
attach(selector) ==
  [e \in Elements |->
     IF e \in querySelectorAll(selector) /\ e \notin attachedElements
     THEN [keydown |-> listeners[e].keydown + 1,
           keyup |-> listeners[e].keyup + (IF typeWriterConfig.keyUpSounds THEN 1 ELSE 0)]
     ELSE listeners[e]]

Exists == call.op # "none"

\* new TypeWriter(config)
NewTypeWriter(cfg) ==
  /\ ~Exists
  /\ typeWriterConfig' = cfg
  /\ enabled' = enabledOrTrue(cfg)
  /\ call' = [op |-> "newTypeWriter", config |-> cfg]
  /\ result' = NoCall
  /\ UNCHANGED <<audio, manager, juicy, throttle, attachedElements, listeners, defaultTypeWriter, lastQuick>>

KeyDown(key) ==
  /\ Exists
  /\ call' = [op |-> "keyDown", key |-> key]
  /\ result' = [played |-> keyDown(enabled), keyDowns |-> 1]
  /\ UNCHANGED <<audio, manager, front>>

KeyUp(key) ==
  /\ Exists
  /\ call' = [op |-> "keyUp", key |-> key]
  /\ result' = [played |-> keyUp(enabled, typeWriterConfig), keyDowns |-> 0]
  /\ UNCHANGED <<audio, manager, front>>

\* A key is pressed in element e: every keydown listener calls keyDown.
KeyPress(e, key) ==
  /\ Exists
  /\ call' = [op |-> "keydown event", element |-> e, key |-> key]
  /\ result' = [played |-> listeners[e].keydown * keyDown(enabled),
                keyDowns |-> listeners[e].keydown]
  /\ UNCHANGED <<audio, manager, front>>

\* The key is released in element e: every keyup listener calls keyUp.
KeyRelease(e, key) ==
  /\ Exists
  /\ call' = [op |-> "keyup event", element |-> e, key |-> key]
  /\ result' = [played |-> listeners[e].keyup * keyUp(enabled, typeWriterConfig),
                keyDowns |-> 0]
  /\ UNCHANGED <<audio, manager, front>>

Attach(selector) ==
  /\ Exists
  /\ \A e \in Elements : attach(selector)[e].keydown <= MaxListeners
  /\ listeners' = attach(selector)
  /\ attachedElements' = attachedElements \cup querySelectorAll(selector)
  /\ call' = [op |-> "attach", selector |-> selector]
  /\ result' = NoCall
  /\ UNCHANGED <<audio, manager, juicy, throttle, enabled, defaultTypeWriter, typeWriterConfig, lastQuick>>

Detach ==
  /\ Exists
  /\ attachedElements' = {}
  /\ call' = [op |-> "detach"]
  /\ result' = NoCall
  /\ UNCHANGED <<audio, manager, juicy, throttle, enabled, listeners, defaultTypeWriter, typeWriterConfig, lastQuick>>

Enable ==
  /\ Exists
  /\ enabled' = TRUE
  /\ call' = [op |-> "enable"]
  /\ result' = NoCall
  /\ UNCHANGED <<audio, manager, juicy, throttle, attachedElements, listeners, defaultTypeWriter, typeWriterConfig, lastQuick>>

Disable ==
  /\ Exists
  /\ enabled' = FALSE
  /\ call' = [op |-> "disable"]
  /\ result' = NoCall
  /\ UNCHANGED <<audio, manager, juicy, throttle, attachedElements, listeners, defaultTypeWriter, typeWriterConfig, lastQuick>>

ToggleEnabled ==
  /\ Exists
  /\ enabled' = ~enabled
  /\ call' = [op |-> "toggleEnabled"]
  /\ result' = NoCall
  /\ UNCHANGED <<audio, manager, juicy, throttle, attachedElements, listeners, defaultTypeWriter, typeWriterConfig, lastQuick>>

\* A page, with or without a document, that has not made a typewriter yet.
InitTypeWriter ==
  /\ hasWindow \in BOOLEAN
  /\ lazyLoad = FALSE /\ fallback = "silence"
  /\ context = "none" /\ cache = <<>>
  /\ loadedSounds = {} /\ loadingPromises = {}
  /\ tracked = [u \in Urls |-> "none"]
  /\ ops = <<>> /\ loadLog = <<>> /\ hits = {}
  /\ NoPacks /\ call = NoCall /\ result = NoCall /\ NoFront

NextTypeWriter ==
  \/ \E cfg \in TypeWriterConfigs : NewTypeWriter(cfg)
  \/ \E key \in Keys : KeyDown(key)
  \/ \E key \in Keys : KeyUp(key)
  \/ \E e \in Elements, key \in Keys : KeyPress(e, key)
  \/ \E e \in Elements, key \in Keys : KeyRelease(e, key)
  \/ \E selector \in Selectors : Attach(selector)
  \/ Detach
  \/ Enable
  \/ Disable
  \/ ToggleEnabled

SpecTypeWriter == InitTypeWriter /\ [][NextTypeWriter]_vars

\* C28: the enabled flag of a new TypeWriter equals the configured value; a
\* TypeWriter made with enabled: false plays no sound on keyDown or keyUp
\* while neither enable() nor toggle() has been called; keyDown plays a
\* sound exactly when the enabled flag is true.
C28_DisabledSilent ==
  [][ /\ call'.op = "newTypeWriter" => enabled' = configuredEnabled(call'.config)
      /\ (call.op = "newTypeWriter" /\ call.config.enabled = {FALSE}
            /\ call'.op \in {"keyDown", "keyUp"}) => result'.played = 0
      /\ call'.op = "keyDown" => (result'.played > 0 <=> enabled') ]_vars

\* C30: after any sequence of attach and detach calls every element carries
\* at most one keydown listener of the typewriter, so that a key press
\* triggers at most one keyDown; a key press right after detach() triggers
\* none.
C30_OneListener ==
  [][ /\ \A e \in Elements : listeners'[e].keydown <= 1
      /\ call'.op = "keydown event" => result'.keyDowns <= 1
      /\ (call.op = "detach" /\ call'.op = "keydown event") => result'.keyDowns = 0 ]_vars

----------------------------------------------------------------------------
\* The quick setup: enableTypingSounds and disableTypingSounds.

\* enableTypingSounds(config)
EnableTypingSounds(cfg) ==
  /\ lastQuick' = "enable"
  /\ call' = [op |-> "enableTypingSounds", config |-> cfg]
  /\ result' = NoCall
  /\ IF ~defaultTypeWriter
     THEN /\ defaultTypeWriter' = TRUE
          /\ typeWriterConfig' = cfg
          /\ enabled' = enabledOrTrue(cfg)
          /\ listeners' =
               [e \in Elements |->
                  IF e \in querySelectorAll("input, textarea") /\ e \notin attachedElements
                  THEN [keydown |-> listeners[e].keydown + 1,
                        keyup |-> listeners[e].keyup + (IF cfg.keyUpSounds THEN 1 ELSE 0)]
                  ELSE listeners[e]]
          /\ attachedElements' = attachedElements \cup querySelectorAll("input, textarea")
     ELSE UNCHANGED <<defaultTypeWriter, typeWriterConfig, enabled, listeners, attachedElements>>
  /\ UNCHANGED <<audio, manager, juicy, throttle>>

\* disableTypingSounds()
DisableTypingSounds ==
  /\ lastQuick' = "disable"
  /\ call' = [op |-> "disableTypingSounds"]
  /\ result' = NoCall
  /\ enabled' = IF defaultTypeWriter THEN FALSE ELSE enabled
  /\ UNCHANGED <<audio, manager, juicy, throttle, attachedElements, listeners, defaultTypeWriter, typeWriterConfig>>

\* The user types in a page that uses the quick setup only.
Typing(e, key) == defaultTypeWriter /\ KeyPress(e, key)

NextTypingSounds ==
  \/ \E cfg \in TypeWriterConfigs : EnableTypingSounds(cfg)
  \/ DisableTypingSounds
  \/ \E e \in Elements, key \in Keys : Typing(e, key)

SpecTypingSounds == InitTypeWriter /\ [][NextTypingSounds]_vars

\* Typing sounds are on: there is a default typewriter and it is enabled.
TypingSoundsEnabled == defaultTypeWriter /\ enabled

\* C29: after any sequence of enableTypingSounds and disableTypingSounds
\* calls, typing sounds are enabled exactly when the last of them was
\* enableTypingSounds.
C29_LastCallWins ==
  /\ lastQuick = "enable" => TypingSoundsEnabled
  /\ lastQuick = "disable" => ~TypingSoundsEnabled

====
